---- MODULE Spec2Model ----
(***************************************************************************)
(* Model of the mud-report dashboard script app.py: the regex field        *)
(* extractor (safe_search, extract_volume_format), the numeric coercion    *)
(* (to_float), the derived columns, the grouped comparison table, and the  *)
(* script's rerun-per-interaction life cycle.                              *)
(*                                                                         *)
(* Text is a sequence of tokens.  A token is one character ("1", ".",      *)
(* " ", "\n", ...) or one label of the report written as a single token    *)
(* ("Well Name", "In Pits", "bbl", ...).  A Python str is therefore a      *)
(* sequence of tokens, and "0" is <<"0">>.                                 *)
(*                                                                         *)
(* A float is an exact fraction [n |-> numerator, d |-> denominator] in    *)
(* lowest terms with d > 0; d = 0 encodes the IEEE specials: 1/0 is inf,   *)
(* -1/0 is -inf and 0/0 is NaN.  Binary rounding error is not modelled.    *)
(***************************************************************************)
EXTENDS Integers, Sequences, FiniteSets, TLC

\* ------------------------------------------------------------------ bounds

\* Longest text typed token by token in SpecExtract.
MaxLen == 5

\* Most files held by the uploader at once in Spec.
MaxFiles == 3

\* ------------------------------------------------------------------ tokens

Digits == {"0", "1", "2", "3", "4", "5", "6", "7", "8", "9"}

Whitespace == {" ", "\n"}

Labels ==
    {"Well Name", "Rig Name", "Bit Data", "Size", "Drilled Depth", "Hours",
     "Oil Added (+)", "Water Added (+)", "Barite Added (+)",
     "Other Product Usage (+)", "Left on Cuttings (-)", "In Pits", "In Hole",
     "bbl", "MUD WT", "Plastic Viscosity", "@", "degF", "Yield Point", "=",
     "Flowline Temperature"}

Letters == {"A", "B", "C", "R", "S", "x"}

Tokens == Digits \cup Whitespace \cup Labels \cup Letters \cup {".", ",", "-", ":"}

\* ------------------------------------------------------------- str methods

RECURSIVE lstrip(_)
lstrip(s) ==
    IF s # <<>> /\ Head(s) \in Whitespace THEN lstrip(Tail(s)) ELSE s

RECURSIVE rstrip(_)
rstrip(s) ==
    IF s # <<>> /\ s[Len(s)] \in Whitespace
    THEN rstrip(SubSeq(s, 1, Len(s) - 1))
    ELSE s

\* str.strip()
strip(s) == rstrip(lstrip(s))

\* str.replace(old, ''), old a single character
RECURSIVE remove(_, _)
remove(s, old) ==
    IF s = <<>> THEN <<>>
    ELSE IF Head(s) = old THEN remove(Tail(s), old)
    ELSE <<Head(s)>> \o remove(Tail(s), old)

\* ------------------------------------------------------------------- regex
\* A pattern is a sequence of items, each one character class with a
\* quantifier: "1" (exactly one), "?" (greedy optional), "*" and "+"
\* (greedy), "*?" (lazy); g marks the item that is capture group 1.

Item(cls, q, g) == [cls |-> cls, q |-> q, g |-> g]

Lit(t) == Item({t}, "1", FALSE)

\* "." without re.DOTALL: any character but a newline
Dot == Tokens \ {"\n"}

NoMatch == [ok |-> FALSE, s |-> 0, e |-> 0]

\* The number of consecutive tokens of class cls in text from position i.
RECURSIVE span(_, _, _)
span(text, cls, i) ==
    IF i <= Len(text) /\ text[i] \in cls THEN 1 + span(text, cls, i + 1) ELSE 0

\* Backtracking match of items k.. of pat at position i of text: the first
\* success in the engine's priority order, with the span [s, e) of group 1.
RECURSIVE match_here(_, _, _, _)
RECURSIVE try_counts(_, _, _, _, _, _, _)
try_counts(pat, k, text, i, j, last, step) ==
    LET r == match_here(pat, k + 1, text, i + j)
    IN  IF r.ok
        THEN IF pat[k].g THEN [ok |-> TRUE, s |-> i, e |-> i + j] ELSE r
        ELSE IF j = last THEN NoMatch
        ELSE try_counts(pat, k, text, i, j + step, last, step)

match_here(pat, k, text, i) ==
    IF k > Len(pat) THEN [ok |-> TRUE, s |-> i, e |-> i]
    ELSE LET it == pat[k]
             n  == span(text, it.cls, i)
             lo == IF it.q \in {"1", "+"} THEN 1 ELSE 0
             hi == IF it.q \in {"1", "?"} /\ n > 1 THEN 1 ELSE n
         IN  IF hi < lo THEN NoMatch
             ELSE IF it.q = "*?" THEN try_counts(pat, k, text, i, lo, hi, 1)
             ELSE try_counts(pat, k, text, i, hi, lo, -1)

\* The positions a match of pat can start at: where its first item can take
\* a token, or anywhere when that item may be empty.
starts(pat, text) ==
    IF pat[1].q \in {"1", "+"}
    THEN {i \in 1..Len(text) : text[i] \in pat[1].cls}
    ELSE 1..(Len(text) + 1)

\* The first match among the start positions at, leftmost first.
RECURSIVE search_at(_, _, _)
search_at(pat, text, at) ==
    IF at = {} THEN NoMatch
    ELSE LET i == CHOOSE j \in at : \A o \in at : j <= o
             r == match_here(pat, 1, text, i)
         IN  IF r.ok THEN r ELSE search_at(pat, text, at \ {i})

\* re.search: the match at the leftmost start position that has one.
re_search(pat, text) == search_at(pat, text, starts(pat, text))

\* match.group(1)
group1(m, text) == SubSeq(text, m.s, m.e - 1)

\* safe_search without .strip()
safe_search_unstripped(pattern, text) ==
    LET match == re_search(pattern, text)
    IN  IF match.ok THEN group1(match, text) ELSE <<"0">>

\* safe_search with "" for the default
safe_search_empty_default(pattern, text) ==
    LET match == re_search(pattern, text)
    IN  IF match.ok THEN strip(group1(match, text)) ELSE <<>>

safe_search(pattern, text) ==
    LET match == re_search(pattern, text)
    IN  IF match.ok THEN strip(group1(match, text)) ELSE <<"0">>

\* ------------------------------------------------------------------ floats

Abs(x) == IF x < 0 THEN -x ELSE x

Sgn(x) == IF x < 0 THEN -1 ELSE IF x > 0 THEN 1 ELSE 0

RECURSIVE GCD(_, _)
GCD(a, b) == IF b = 0 THEN a ELSE GCD(b, a % b)

\* The float n/d; n/0 is inf, -inf or NaN by the sign of n.
Frac(n, d) ==
    IF d = 0 THEN [n |-> Sgn(n), d |-> 0]
    ELSE LET g == GCD(Abs(n), Abs(d))
         IN  [n |-> (Sgn(d) * n) \div g, d |-> Abs(d) \div g]

Zero == [n |-> 0, d |-> 1]

NaN == [n |-> 0, d |-> 0]

IsNaN(x) == x.d = 0 /\ x.n = 0

IsFinite(x) == x.d # 0

Add(a, b) ==
    IF a.d # 0 /\ b.d # 0 THEN Frac(a.n * b.d + b.n * a.d, a.d * b.d)
    ELSE IF IsNaN(a) \/ IsNaN(b) THEN NaN
    ELSE IF a.d = 0 /\ b.d = 0 /\ a.n # b.n THEN NaN
    ELSE IF a.d = 0 THEN a ELSE b

Neg(a) == [n |-> -a.n, d |-> a.d]

Sub(a, b) == Add(a, Neg(b))

Mul(a, b) == Frac(a.n * b.n, a.d * b.d)

\* Float (numpy) division: x/0 is inf, -inf or NaN, never an exception.
Div(a, b) ==
    IF b.d = 0 THEN (IF a.d = 0 \/ IsNaN(b) THEN NaN ELSE Zero)
    ELSE IF a.d = 0 THEN (IF b.n < 0 THEN Neg(a) ELSE a)
    ELSE IF b.n = 0 THEN Frac(a.n, 0)
    ELSE Frac(a.n * b.d * Sgn(b.n), a.d * Abs(b.n))

Less(a, b) == a.n * b.d < b.n * a.d

\* ----------------------------------------------------------- float <-> str

DigitVal(c) ==
    CASE c = "0" -> 0 [] c = "1" -> 1 [] c = "2" -> 2 [] c = "3" -> 3
      [] c = "4" -> 4 [] c = "5" -> 5 [] c = "6" -> 6 [] c = "7" -> 7
      [] c = "8" -> 8 [] c = "9" -> 9

DigitChar(v) == CHOOSE c \in Digits : DigitVal(c) = v

RECURSIVE Pow10(_)
Pow10(k) == IF k = 0 THEN 1 ELSE 10 * Pow10(k - 1)

\* The value of a string of digits.
RECURSIVE DigitsVal(_)
DigitsVal(s) ==
    IF s = <<>> THEN 0
    ELSE 10 * DigitsVal(SubSeq(s, 1, Len(s) - 1)) + DigitVal(s[Len(s)])

AllIn(s, cls) == \A i \in 1..Len(s) : s[i] \in cls

\* The float literals over digits, "." and "-" that float() accepts after
\* stripping whitespace: -?(\d+(\.\d*)?|\.\d+)
float_parses(val) ==
    LET s    == strip(val)
        body == IF s # <<>> /\ Head(s) = "-" THEN Tail(s) ELSE s
        dots == {i \in 1..Len(body) : body[i] = "."}
    IN  /\ AllIn(body, Digits \cup {"."})
        /\ Cardinality(dots) <= 1
        /\ \E i \in 1..Len(body) : body[i] \in Digits

\* float(val) for a val that parses
float_value(val) ==
    LET s    == strip(val)
        neg  == s # <<>> /\ Head(s) = "-"
        body == IF neg THEN Tail(s) ELSE s
        k    == IF \E i \in 1..Len(body) : body[i] = "."
                THEN Len(body) - (CHOOSE i \in 1..Len(body) : body[i] = ".")
                ELSE 0
        m    == DigitsVal(remove(body, "."))
    IN  Frac(IF neg THEN -m ELSE m, Pow10(k))

\* The digits of a natural number.
RECURSIVE NatStr(_)
NatStr(v) ==
    IF v < 10 THEN <<DigitChar(v)>>
    ELSE NatStr(v \div 10) \o <<DigitChar(v % 10)>>

\* The digits of the fraction r/d, 0 <= r < d, d a divisor of a power of 10.
RECURSIVE FracStr(_, _)
FracStr(r, d) ==
    IF r = 0 THEN <<>>
    ELSE <<DigitChar((10 * r) \div d)>> \o FracStr((10 * r) % d, d)

\* str(x) of a finite float below 1e16: repr's shortest decimal, which
\* always shows a fractional part ("2.0", "0.0", "1.5").
float_str(x) ==
    LET a == Abs(x.n)
        f == FracStr(a % x.d, x.d)
    IN  (IF x.n < 0 THEN <<"-">> ELSE <<>>) \o NatStr(a \div x.d) \o <<".">>
            \o (IF f = <<>> THEN <<"0">> ELSE f)

\* ---------------------------------------------------------------- patterns

D_dot == Digits \cup {"."}

pat_WellName ==
    <<Lit("Well Name"), Item(Dot, "*?", FALSE), Item({":"}, "?", FALSE),
      Item(Whitespace, "*", FALSE), Item(Dot, "*?", TRUE), Lit("\n")>>

pat_RigName ==
    <<Lit("Rig Name"), Item(Dot, "*?", FALSE), Item({":"}, "?", FALSE),
      Item(Whitespace, "*", FALSE), Item(Dot, "*?", TRUE), Lit("\n")>>

pat_BitSize ==
    <<Lit("Bit Data"), Item(Dot, "*?", FALSE), Lit("Size"),
      Item(Whitespace, "*", FALSE), Lit("\n"), Item(Whitespace, "*", FALSE),
      Item(Dot, "*?", TRUE), Item(Whitespace, "1", FALSE)>>

pat_Depth ==
    <<Lit("Drilled Depth"), Item(Whitespace, "*", FALSE), Lit("\n"),
      Item(Whitespace, "*", FALSE), Item(Digits \cup {","}, "+", TRUE)>>

pat_DrillingHrs ==
    <<Lit("Hours"), Item(Whitespace, "*", FALSE), Lit("\n"),
      Item(Whitespace, "*", FALSE), Item(D_dot, "+", TRUE)>>

pat_BaseOil ==
    <<Lit("Oil Added (+)"), Item(Whitespace, "+", FALSE), Item(D_dot, "+", TRUE)>>

pat_Water ==
    <<Lit("Water Added (+)"), Item(Whitespace, "+", FALSE), Item(D_dot, "+", TRUE)>>

pat_Barite ==
    <<Lit("Barite Added (+)"), Item(Whitespace, "+", FALSE), Item(D_dot, "+", TRUE)>>

pat_Chemical ==
    <<Lit("Other Product Usage (+)"), Item(Whitespace, "+", FALSE),
      Item(D_dot, "+", TRUE)>>

pat_Losses ==
    <<Lit("Left on Cuttings (-)"), Item(Whitespace, "+", FALSE),
      Item(D_dot \cup {"-"}, "+", TRUE)>>

pat_InPits ==
    <<Lit("In Pits"), Item(Whitespace, "+", FALSE), Item(D_dot, "+", TRUE),
      Item(Whitespace, "*", FALSE), Lit("bbl")>>

pat_InHole ==
    <<Lit("In Hole"), Item(Whitespace, "+", FALSE), Item(D_dot, "+", TRUE),
      Item(Whitespace, "*", FALSE), Lit("bbl")>>

pat_MudWeight ==
    <<Lit("MUD WT"), Item(Whitespace, "*", FALSE), Item(D_dot, "+", TRUE)>>

pat_PV ==
    <<Lit("Plastic Viscosity"), Item(Dot, "*?", FALSE), Lit("@"),
      Item(Whitespace, "*", FALSE), Item(Digits, "+", FALSE),
      Item(Whitespace, "*", FALSE), Lit("degF"), Item(Whitespace, "*", FALSE),
      Item(Digits, "+", TRUE)>>

pat_YP ==
    <<Lit("Yield Point"), Item(Dot, "*?", FALSE), Lit("="),
      Item(Whitespace, "*", FALSE), Item(Digits, "+", TRUE)>>

pat_AveTemp ==
    <<Lit("Flowline Temperature"), Item(Whitespace, "*", FALSE), Lit("degF"),
      Item(Whitespace, "*", FALSE), Item(D_dot, "+", TRUE)>>

\* ------------------------------------------------------------ the uploads
\* An uploaded file is a BytesIO: [name, data, pos].  Its bytes are either a
\* PDF, given by the text of its pages, or not a PDF at all.

Pdf(text) == [valid |-> TRUE, text |-> text]

NotPdf == [valid |-> FALSE, text |-> <<>>]

\* b"": what read() returns at the end of the stream
EmptyBytes == [valid |-> FALSE, text |-> <<>>]

nbytes(data) == 1 + Len(data.text)

\* file.read(): everything from the stream position to the end
read(file) == IF file.pos = 0 THEN file.data ELSE EmptyBytes

Raise(exc) == [raised |-> TRUE, exc |-> exc, data |-> <<>>]

Return(data) == [raised |-> FALSE, exc |-> "", data |-> data]

\* float(data['In Pits']) + float(data['In Hole']), or not a number at all
total_circ_parses(in_pits, in_hole) ==
    float_parses(in_pits) /\ float_parses(in_hole)

total_circ(in_pits, in_hole) ==
    float_str(Add(float_value(in_pits), float_value(in_hole)))

\* The pattern of each captured field.
Pattern ==
    [WellName    |-> pat_WellName,
     RigName     |-> pat_RigName,
     BitSize     |-> pat_BitSize,
     Depth       |-> pat_Depth,
     DrillingHrs |-> pat_DrillingHrs,
     BaseOil     |-> pat_BaseOil,
     Water       |-> pat_Water,
     Barite      |-> pat_Barite,
     Chemical    |-> pat_Chemical,
     Losses      |-> pat_Losses,
     InPits      |-> pat_InPits,
     InHole      |-> pat_InHole,
     MudWeight   |-> pat_MudWeight,
     PV          |-> pat_PV,
     YP          |-> pat_YP,
     AveTemp     |-> pat_AveTemp]

\* data[field] = safe_search(pattern, text), for every captured field
captured(text) == [f \in DOMAIN Pattern |-> safe_search(Pattern[f], text)]

\* The record of the captured strings c: Depth without its commas, and the
\* composite Total Circ; float() on line 31 raises ValueError on a string
\* that is no number.
finish_record(c) ==
    IF ~total_circ_parses(c.InPits, c.InHole) THEN Raise("ValueError")
    ELSE Return([c EXCEPT !.Depth = remove(@, ",")]
                    @@ [TotalCirc |-> total_circ(c.InPits, c.InHole)])

\* Lines 16-38: the Field Record of one page text.
field_record(text) == finish_record(captured(text))

\* A report page with the given field values (token sequences).
Report(well, rig, depth, hrs, oil, losses, pits, hole) ==
    <<"Well Name", ":", " ">> \o well \o <<"\n", "Rig Name", ":", " ">> \o rig
      \o <<"\n", "Drilled Depth", "\n">> \o depth
      \o <<"\n", "Hours", "\n">> \o hrs
      \o <<"\n", "Oil Added (+)", " ">> \o oil
      \o <<"\n", "Left on Cuttings (-)", " ">> \o losses
      \o <<"\n", "In Pits", " ">> \o pits \o <<" ", "bbl", "\n">>
      \o <<"In Hole", " ">> \o hole \o <<" ", "bbl", "\n">>

\* The documents a user uploads in Spec.
Corpus ==
    {[name |-> "r1.pdf",
      data |-> Pdf(Report(<<"A">>, <<"R">>, <<"5", "0">>, <<"1">>, <<"5">>,
                          <<"2">>, <<"1">>, <<"1">>))],
     [name |-> "r2.pdf",
      data |-> Pdf(Report(<<"A">>, <<"S">>, <<"7", "0">>, <<"0">>, <<"1">>,
                          <<"3">>, <<"2", ".", "5">>, <<"1", ".", "5">>))],
     [name |-> "r3.pdf", data |-> NotPdf],
     [name |-> "r4.pdf",
      data |-> Pdf(Report(<<"B">>, <<"R">>, <<"9", "0">>, <<"3">>, <<"1">>,
                          <<"1">>, <<"1", ".", "2", ".", "3">>, <<"1">>))],
     [name |-> "r5.pdf",
      data |-> Pdf(<<"Well Name", ":", " ", "B", "\n", "Rig Name", ":", " ",
                     "S", "\n", "Oil Added (+)", " ", "5", "\n",
                     "Left on Cuttings (-)", " ", "-", "5", "\n">>)],
     [name |-> "r6.pdf", data |-> Pdf(<<>>)],
     [name |-> "r7.pdf",
      data |-> Pdf(<<"Well Name", ":", " ", "C", "\n", "Rig Name", ":", " ",
                     "R", "\n">>)]}

\* Lines 13-14: fitz.open raises on bytes that are no PDF (b"" included);
\* the text is the pages' text joined.
extract_volume_format(file) ==
    LET stream == read(file)
    IN  IF ~stream.valid THEN Raise("FileDataError")
        ELSE field_record(stream.text)

\* to_float that leaves NaN for a string that is no number
to_float_nan(val) == IF float_parses(val) THEN float_value(val) ELSE NaN

\* to_float(val): float(val), or the default 0.0 when float raises
to_float(val) == IF float_parses(val) THEN float_value(val) ELSE Zero

\* ------------------------------------------------------- the derived table

One == [n |-> 1, d |-> 1]

Hundred == [n |-> 100, d |-> 1]

\* no replacement: the divisor as it is
replace_nothing(x) == x

\* Series.replace(0, 1)
replace_0_1(x) == IF x = Zero THEN One ELSE x

\* Series.fillna('UNKNOWN'); a column of str holds no null
None == <<"None">>

fillna(v) == IF v = None THEN <<"UNKNOWN">> ELSE v

\* The columns the script coerces with to_float.
NumericColumns ==
    {"Depth", "DrillingHrs", "BaseOil", "Water", "Barite", "Chemical",
     "Losses", "TotalCirc", "PV", "YP", "MudWeight", "AveTemp"}

\* Lines 59-65: the row of record rec, number i of the table: Date from the
\* index, Well Name filled, the numeric columns coerced.
coerce(rec, i) ==
    [col \in DOMAIN rec |->
        IF col \in NumericColumns THEN to_float(rec[col])
        ELSE IF col = "WellName" THEN fillna(rec[col])
        ELSE rec[col]] @@ [Date |-> i - 1]

\* Line 67
with_total_dilution(row) ==
    row @@ [TotalDilution |-> Add(Add(row.BaseOil, row.Water), row.Chemical)]

\* Lines 68-73
with_ratios(row) ==
    row @@
    [DiscardRatio    |-> Div(row.Losses, replace_0_1(row.TotalCirc)),
     DSRE            |-> Mul(Div(row.TotalDilution,
                                 Add(row.TotalDilution, replace_0_1(row.Losses))),
                             Hundred),
     ROP             |-> Div(row.Depth, replace_0_1(row.DrillingHrs)),
     MudCuttingRatio |-> Mul(Div(row.Losses, replace_0_1(row.TotalCirc)), Hundred),
     TopDeckSCE      |-> Mul(row.Losses, Frac(6, 10)),
     BottomDeckSCE   |-> Mul(row.Losses, Frac(4, 10))]

\* One row of df.
derive(rec, i) == with_ratios(with_total_dilution(coerce(rec, i)))

\* ------------------------------------------------------------- aggregation

\* Code-point order of the tokens, for the sorted group keys of groupby.
Collation ==
    <<"\n", " ", ",", "-", ".", "0", "1", "2", "3", "4", "5", "6", "7", "8",
      "9", ":", "=", "@", "A", "B", "Barite Added (+)", "Bit Data", "C",
      "Drilled Depth", "Flowline Temperature", "Hours", "In Hole", "In Pits",
      "Left on Cuttings (-)", "MUD WT", "Oil Added (+)",
      "Other Product Usage (+)", "Plastic Viscosity", "R", "Rig Name", "S",
      "Size", "Water Added (+)", "Well Name", "Yield Point", "bbl", "x",
      "degF">>

Rank(t) == CHOOSE i \in 1..Len(Collation) : Collation[i] = t

RECURSIVE key_less(_, _)
key_less(a, b) ==
    IF b = <<>> THEN FALSE
    ELSE IF a = <<>> THEN TRUE
    ELSE IF Head(a) # Head(b) THEN Rank(Head(a)) < Rank(Head(b))
    ELSE key_less(Tail(a), Tail(b))

RECURSIVE sorted(_)
sorted(keys) ==
    IF keys = {} THEN <<>>
    ELSE LET m == CHOOSE k \in keys : \A o \in keys \ {k} : key_less(k, o)
         IN  <<m>> \o sorted(keys \ {m})

key_of(row, by) == IF by = "Well Name" THEN row.WellName ELSE row.RigName

\* The sum of column values vals (a sequence), NaN skipped.
RECURSIVE agg_sum(_)
agg_sum(vals) ==
    IF vals = <<>> THEN Zero
    ELSE IF IsNaN(Head(vals)) THEN agg_sum(Tail(vals))
    ELSE Add(Head(vals), agg_sum(Tail(vals)))

count(vals) == Cardinality({i \in 1..Len(vals) : ~IsNaN(vals[i])})

\* 'sum' where 'mean' is meant
agg_mean_as_sum(vals) == agg_sum(vals)

agg_mean(vals) ==
    IF count(vals) = 0 THEN NaN ELSE Div(agg_sum(vals), Frac(count(vals), 1))

\* round(2): to the nearest hundredth, halves to the even one
round2(x) ==
    IF x.d = 0 THEN x
    ELSE LET q == (100 * x.n) \div x.d
             r == (100 * x.n) % x.d
             up == 2 * r > x.d \/ (2 * r = x.d /\ q % 2 = 1)
         IN  Frac(IF up THEN q + 1 ELSE q, 100)

\* The rows of df in group key, in table order.
RECURSIVE group_rows(_, _, _)
group_rows(df, by, key) ==
    IF df = <<>> THEN <<>>
    ELSE (IF key_of(Head(df), by) = key THEN <<Head(df)>> ELSE <<>>)
            \o group_rows(Tail(df), by, key)

column(rows, col) == [i \in 1..Len(rows) |-> rows[i][col]]

\* The aggregate of one group: its mean columns and its sum columns.
MeanColumns == {"ROP", "DSRE", "DiscardRatio"}

SumColumns == {"TopDeckSCE", "BottomDeckSCE"}

agg_row(rows, key) ==
    [c \in MeanColumns \cup SumColumns |->
        round2(IF c \in MeanColumns THEN agg_mean(column(rows, c))
               ELSE agg_sum(column(rows, c)))] @@ [key |-> key]

groups(df, by, keys) ==
    [g \in 1..Len(keys) |-> agg_row(group_rows(df, by, keys[g]), keys[g])]

\* df.groupby(by).agg({...}).round(2).reset_index()
groupby_agg(df, by) ==
    groups(df, by, sorted({key_of(df[i], by) : i \in 1..Len(df)}))

\* Series.rank(ascending=False) with the default method 'average': the mean
\* of the positions the value's ties take in descending order, as twice its
\* value so that it stays an integer.
rank_desc_x2(vals, i) ==
    LET greater == Cardinality({j \in 1..Len(vals) : Less(vals[i], vals[j])})
        equal   == Cardinality({j \in 1..Len(vals) : vals[j] = vals[i]})
    IN  2 * greater + equal + 1

\* .astype(int) of a positive float: truncation
astype_int_x2(twice) == twice \div 2

rop_rank(vals, i) == astype_int_x2(rank_desc_x2(vals, i))

\* comp_df with the two columns added before the CSV export
with_rank_and_delta(comp) ==
    [g \in 1..Len(comp) |->
        comp[g] @@
        [ROPRank   |-> rop_rank(column(comp, "ROP"), g),
         DeltaDSRE |-> Sub(comp[g].DSRE, agg_mean(column(comp, "DSRE")))]]

\* -------------------------------------------------------------- the script

VARIABLES
    text,            \* SpecExtract: the page text typed so far
    uploaded_files,  \* the uploader's files, as the last run left them
    errors,          \* the st.error reports of the last run, in order
    records,         \* records of the last run
    df,              \* the derived table of the last run
    selected,        \* the "Select Wells" multiselect
    trend_df,        \* df filtered by selected
    deck_summary,    \* the deck-level summary of trend_df
    compare_mode,    \* the "Compare by" radio
    comp_df          \* the exported comparison table

vars == <<text, uploaded_files, errors, records, df, selected, trend_df,
          deck_summary, compare_mode, comp_df>>

\* a file_uploader that hands out the streams of the last run, read to the end
file_uploader_same_streams(stored) == stored

\* st.file_uploader: on every run the widget hands the script new
\* UploadedFile streams over the stored bytes, each at position 0.
file_uploader(stored) ==
    [i \in 1..Len(stored) |-> [stored[i] EXCEPT !.pos = 0]]

\* a batch loop whose except clause ends the loop
RECURSIVE batch_loop_break(_, _, _)
batch_loop_break(files, recs, errs) ==
    IF files = <<>> THEN [records |-> recs, errors |-> errs]
    ELSE LET r == extract_volume_format(Head(files))
         IN  IF r.raised
             THEN [records |-> recs,
                   errors  |-> Append(errs, [name |-> Head(files).name,
                                             exc  |-> r.exc])]
             ELSE batch_loop_break(Tail(files), Append(recs, r.data), errs)

\* for file in uploaded_files: try: records.append(...) except: st.error(...)
RECURSIVE batch_loop(_, _, _)
batch_loop(files, recs, errs) ==
    IF files = <<>> THEN [records |-> recs, errors |-> errs]
    ELSE LET r == extract_volume_format(Head(files))
         IN  IF r.raised
             THEN batch_loop(Tail(files), recs,
                             Append(errs, [name |-> Head(files).name,
                                           exc  |-> r.exc]))
             ELSE batch_loop(Tail(files), Append(recs, r.data), errs)

\* pd.DataFrame(records) with the coerced and derived columns
data_frame(recs) == [i \in 1..Len(recs) |-> derive(recs[i], i)]

\* df['Well Name'].unique()
wells(table) == {table[i].WellName : i \in 1..Len(table)}

\* df[df['Well Name'].isin(sel)]
RECURSIVE isin(_, _)
isin(table, sel) ==
    IF table = <<>> THEN <<>>
    ELSE (IF Head(table).WellName \in sel THEN <<Head(table)>> ELSE <<>>)
            \o isin(Tail(table), sel)

DeckColumns == {"TopDeckSCE", "BottomDeckSCE", "Losses"}

deck_row(rows, key) ==
    [c \in DeckColumns |-> round2(agg_sum(column(rows, c)))] @@ [key |-> key]

deck_groups(table, keys) ==
    [g \in 1..Len(keys) |->
        deck_row(group_rows(table, "Well Name", keys[g]), keys[g])]

\* trend_df.groupby(['Well Name']).agg({... 'sum'}).round(2)
deck_agg(table) == deck_groups(table, sorted(wells(table)))

\* Lines 50-57: the batch over the files the uploader returned.
batch(files) ==
    IF files # <<>> THEN batch_loop(files, <<>>, <<>>)
    ELSE [records |-> <<>>, errors |-> <<>>]

\* A widget keeps its value while it is rendered with the same options, and
\* starts from its default otherwise.
multiselect(options, last_options, sel) ==
    IF options = last_options THEN sel ELSE options

radio(rendered, was_rendered, mode) ==
    IF rendered /\ was_rendered THEN mode ELSE "Well Name"

\* Lines 87-133, for the table of this run and the widgets' values.
render(table, choice, by) ==
    [df           |-> table,
     selected     |-> choice,
     trend_df     |-> isin(table, choice),
     deck_summary |-> deck_agg(isin(table, choice)),
     compare_mode |-> by,
     comp_df      |-> with_rank_and_delta(groupby_agg(table, by))]

\* Lines 58-133, for the outcome of the batch.
show(out, table, sel, mode, last_df) ==
    [errors |-> out.errors, records |-> out.records]
        @@ render(table, multiselect(wells(table), wells(last_df), sel),
                  radio(table # <<>>, last_df # <<>>, mode))

\* The streams after the run: each was read to its end.
consumed(files) ==
    [i \in 1..Len(files) |-> [files[i] EXCEPT !.pos = nbytes(files[i].data)]]

run(files, out, sel, mode, last_df) ==
    [uploaded_files |-> consumed(files)]
        @@ show(out, data_frame(out.records), sel, mode, last_df)

\* One run of the script, top to bottom, over the files stored in the
\* uploader, with the widget values sel and mode of the session and the
\* table the last run showed.
script(stored, sel, mode, last_df) ==
    run(file_uploader(stored), batch(file_uploader(stored)), sel, mode, last_df)

Rerun(stored, sel, mode) ==
    \E out \in {script(stored, sel, mode, df)} :
        /\ uploaded_files' = out.uploaded_files
        /\ errors' = out.errors
        /\ records' = out.records
        /\ df' = out.df
        /\ selected' = out.selected
        /\ trend_df' = out.trend_df
        /\ deck_summary' = out.deck_summary
        /\ compare_mode' = out.compare_mode
        /\ comp_df' = out.comp_df

\* ----------------------------------------------------------------- inputs

\* The field values of the reports uploaded in SpecExtract.
DepthValues == {<<"0">>, <<"5">>, <<"1", ",", "2">>}

HoursValues == {<<"0">>, <<"2">>, <<".">>, <<"1", ".", "2", ".", "3">>}

OilValues == {<<"0">>, <<"5">>}

LossesValues == {<<"0">>, <<"5">>, <<"-", "5">>, <<"-">>, <<"1", "-", "2">>}

PitsValues == {<<"0">>, <<"1">>, <<".">>}

HoleValues == {<<"0">>, <<"1", ".", "5">>}

\* The tokens of one typed text: one field's labels and characters.
Vocabularies ==
    {{"Well Name", ":", " ", "\n", "x"},
     {"Rig Name", ":", " ", "\n", "x"},
     {"Bit Data", "Size", "\n", " ", "x"},
     {"Drilled Depth", "\n", " ", "1", ","},
     {"Hours", "\n", " ", "1", "."},
     {"Oil Added (+)", " ", "1", "."},
     {"Water Added (+)", " ", "1", "."},
     {"Barite Added (+)", " ", "1", "."},
     {"Other Product Usage (+)", " ", "1", "."},
     {"Left on Cuttings (-)", " ", "1", ".", "-"},
     {"In Pits", " ", "1", ".", "bbl"},
     {"In Hole", " ", "1", ".", "bbl"},
     {"MUD WT", " ", "1", "."},
     {"Plastic Viscosity", "@", "1", "degF", "x"},
     {"Yield Point", "=", "1", "x"},
     {"Flowline Temperature", "degF", "1", ".", " "}}

Range(s) == {s[i] : i \in 1..Len(s)}

\* ------------------------------------------------------------ state machine

Init ==
    /\ text = <<>>
    /\ uploaded_files = <<>>
    /\ errors = <<>>
    /\ records = <<>>
    /\ df = <<>>
    /\ selected = {}
    /\ trend_df = <<>>
    /\ deck_summary = <<>>
    /\ compare_mode = "Well Name"
    /\ comp_df = <<>>

\* The user adds a document to the uploader.
AddFile(doc) ==
    /\ Len(uploaded_files) < MaxFiles
    /\ Rerun(Append(uploaded_files, [name |-> doc.name, data |-> doc.data,
                                     pos |-> 0]),
             selected, compare_mode)
    /\ UNCHANGED text

\* The user removes document number i from the uploader.
RemoveFile(i) ==
    /\ i \in 1..Len(uploaded_files)
    /\ Rerun([j \in 1..(Len(uploaded_files) - 1) |->
                 IF j < i THEN uploaded_files[j] ELSE uploaded_files[j + 1]],
             selected, compare_mode)
    /\ UNCHANGED text

\* The selections a user makes in Spec: every well, or all wells but one.
Selections(options) == {options} \cup {options \ {w} : w \in options}

\* The user changes the "Select Wells" multiselect.
SelectWells(sel) ==
    /\ df # <<>>
    /\ sel \subseteq wells(df)
    /\ sel # selected
    /\ Rerun(uploaded_files, sel, compare_mode)
    /\ UNCHANGED text

\* The user changes the "Compare by" radio.
CompareBy(mode) ==
    /\ df # <<>>
    /\ mode # compare_mode
    /\ Rerun(uploaded_files, selected, mode)
    /\ UNCHANGED text

Next ==
    \/ \E doc \in Corpus : AddFile(doc)
    \/ \E i \in 1..MaxFiles : RemoveFile(i)
    \/ \E sel \in Selections(wells(df)) : SelectWells(sel)
    \/ \E mode \in {"Well Name", "Rig Name"} : CompareBy(mode)

Spec == Init /\ [][Next]_vars

\* SpecExtract: one document, its page text typed token by token or written
\* as a report, uploaded alone.

Type(c) ==
    /\ uploaded_files = <<>>
    /\ Len(text) < MaxLen
    /\ \E v \in Vocabularies : Range(text) \cup {c} \subseteq v
    /\ text' = Append(text, c)
    /\ UNCHANGED <<uploaded_files, errors, records, df, selected, trend_df,
                   deck_summary, compare_mode, comp_df>>

WriteReport(depth, hrs, oil, losses, pits, hole) ==
    /\ uploaded_files = <<>>
    /\ text = <<>>
    /\ text' = Report(<<"A">>, <<"R">>, depth, hrs, oil, losses, pits, hole)
    /\ UNCHANGED <<uploaded_files, errors, records, df, selected, trend_df,
                   deck_summary, compare_mode, comp_df>>

UploadText ==
    /\ uploaded_files = <<>>
    /\ Rerun(<<[name |-> "typed.pdf", data |-> Pdf(text), pos |-> 0]>>,
             selected, compare_mode)
    /\ UNCHANGED text

NextExtract ==
    \/ \E c \in Tokens : Type(c)
    \/ \E depth \in DepthValues, hrs \in HoursValues, oil \in OilValues,
          losses \in LossesValues, pits \in PitsValues, hole \in HoleValues :
            WriteReport(depth, hrs, oil, losses, pits, hole)
    \/ UploadText

SpecExtract == Init /\ [][NextExtract]_vars

\* ================================================================== claims

\* Document i of the uploader as it was uploaded: its stream at the start.
Uploaded(i) == [uploaded_files[i] EXCEPT !.pos = 0]

Result(i) == extract_volume_format(Uploaded(i))

Positions == [i \in 1..Len(uploaded_files) |-> i]

Kept == SelectSeq(Positions, LAMBDA i : ~Result(i).raised)

Failed == SelectSeq(Positions, LAMBDA i : Result(i).raised)

\* C1: batch isolation.  The records are the uploads whose extraction did not
\* raise, one row each in upload order; the errors name, one each and in
\* order, the uploads whose extraction raised; so no failure stops the
\* documents after it from being processed.
C1_BatchIsolation ==
    /\ Len(records) = Len(Kept)
    /\ \A j \in 1..Len(Kept) : records[j] = Result(Kept[j]).data
    /\ Len(errors) = Len(Failed)
    /\ \A j \in 1..Len(Failed) : errors[j].name = uploaded_files[Failed[j]].name
    /\ Len(df) = Len(records)

\* Three documents, the second one no PDF: rows 1 and 3, one error naming 2.
C1_Witness ==
    /\ Len(uploaded_files) = 3
    /\ uploaded_files[2].data = NotPdf
    /\ ~Result(1).raised /\ ~Result(3).raised
    /\ records = <<Result(1).data, Result(3).data>>
    /\ Len(errors) = 1 /\ errors[1].name = uploaded_files[2].name

\* C2: once a document's text is extracted there is no fatal path: every
\* page text gives a row and no error.  (Every upload of SpecExtract is a
\* valid PDF.)
C2_EveryTextGivesARow ==
    uploaded_files # <<>> =>
        /\ errors = <<>>
        /\ Len(records) = 1
        /\ Len(df) = 1

\* The documents in the uploader: names and bytes.
Documents ==
    [i \in 1..Len(uploaded_files) |->
        [name |-> uploaded_files[i].name, data |-> uploaded_files[i].data]]

FirstPass == batch([i \in 1..Len(uploaded_files) |-> Uploaded(i)])

C3_TableOfFirstPass ==
    /\ \A i \in 1..Len(uploaded_files) :
          uploaded_files[i].pos = nbytes(uploaded_files[i].data)
    /\ records = FirstPass.records
    /\ errors = FirstPass.errors
    /\ df = data_frame(FirstPass.records)

C3_RerunKeepsRows ==
    Documents' = Documents => <<records, errors, df>>' = <<records, errors, df>>

Matches(f) == re_search(Pattern[f], text).ok

\* C4 as stated: a field whose pattern has no match holds "0", the composite
\* Total Circ included when neither In Pits nor In Hole matches.
C4_DefaultIsZeroString ==
    records # <<>> =>
        /\ \A f \in DOMAIN Pattern : ~Matches(f) => records[1][f] = <<"0">>
        /\ ~Matches("InPits") /\ ~Matches("InHole")
              => records[1].TotalCirc = <<"0">>

\* C4, amended: a captured field whose pattern has no match holds "0" (Depth
\* too, after the comma removal); Total Circ holds "0.0" when neither
\* In Pits nor In Hole matches.
C4_DefaultWhenNoMatch ==
    records # <<>> =>
        /\ \A f \in DOMAIN Pattern : ~Matches(f) => records[1][f] = <<"0">>
        /\ ~Matches("InPits") /\ ~Matches("InHole")
              => records[1].TotalCirc = <<"0", ".", "0">>

\* A record with one field matched and the others at their defaults.
C4_Witness ==
    /\ records # <<>>
    /\ Matches("YP") /\ records[1].YP = <<"1">>
    /\ ~Matches("Depth") /\ records[1].Depth = <<"0">>
    /\ ~Matches("InPits") /\ ~Matches("InHole")
    /\ records[1].TotalCirc = <<"0", ".", "0">>

\* The start positions at which field f's pattern matches the text.
MatchStarts(f) ==
    {i \in 1..(Len(text) + 1) : match_here(Pattern[f], 1, text, i).ok}

\* Capture group 1 of the match re.search finds.
Capture(f) == group1(re_search(Pattern[f], text), text)

\* cap without its leading and trailing whitespace and otherwise unchanged.
Trims(cap) ==
    {SubSeq(cap, p[1] + 1, Len(cap) - p[2]) :
        p \in {q \in (0..Len(cap)) \X (0..Len(cap)) :
                 /\ q[1] + q[2] <= Len(cap)
                 /\ AllIn(SubSeq(cap, 1, q[1]), Whitespace)
                 /\ AllIn(SubSeq(cap, Len(cap) - q[2] + 1, Len(cap)), Whitespace)
                 /\ LET v == SubSeq(cap, q[1] + 1, Len(cap) - q[2])
                    IN  v # <<>> => /\ Head(v) \notin Whitespace
                                    /\ v[Len(v)] \notin Whitespace}}

\* C5 as stated: with a single match of a field's pattern the field holds the
\* trimmed capture verbatim, for every captured field.
C5_CaptureVerbatim ==
    records # <<>> =>
        \A f \in DOMAIN Pattern :
            Cardinality(MatchStarts(f)) = 1 => records[1][f] \in Trims(Capture(f))

\* C5, amended: so for every captured field but Depth; Depth holds the
\* trimmed capture with its commas removed.
C5_CaptureVerbatimButDepth ==
    records # <<>> =>
        \A f \in DOMAIN Pattern :
            Cardinality(MatchStarts(f)) = 1 =>
                IF f = "Depth"
                THEN records[1][f] \in {remove(v, ",") : v \in Trims(Capture(f))}
                ELSE records[1][f] \in Trims(Capture(f))

\* A single match whose capture ends in whitespace that the record lacks.
C5_Witness ==
    /\ records # <<>>
    /\ Cardinality(MatchStarts("WellName")) = 1
    /\ Capture("WellName") = <<"x", " ">>
    /\ records[1].WellName = <<"x">>

\* C6: every numeric column of every row holds a number: the parsed value of
\* a string that parses, 0.0 for one that does not, never a NaN.
C6_NumericColumnsHoldNumbers ==
    \A i \in 1..Len(df) : \A col \in NumericColumns :
        /\ ~IsNaN(df[i][col])
        /\ float_parses(records[i][col]) => df[i][col] = float_value(records[i][col])
        /\ ~float_parses(records[i][col]) => df[i][col] = Zero

\* "1.2.3" and "1-2" in numeric columns, coerced to 0.0 beside parsed values.
C6_Witness ==
    /\ Len(df) = 1
    /\ records[1].DrillingHrs = <<"1", ".", "2", ".", "3">>
    /\ df[1].DrillingHrs = Zero
    /\ records[1].Losses = <<"1", "-", "2">>
    /\ df[1].Losses = Zero
    /\ records[1].Depth = <<"1", "2">>
    /\ df[1].Depth = Frac(12, 1)

\* C7: zero-guard degradation.  With Total Circ = 0 the Discard Ratio is the
\* Losses (and the Mud Cutting Ratio Losses x 100); with Drilling Hrs = 0 the
\* ROP is the Depth; with a non-zero divisor the ratio is the plain quotient;
\* and Mud Cutting Ratio = Discard Ratio x 100 throughout.
C7_ZeroGuard ==
    \A i \in 1..Len(df) :
        LET r == df[i]
        IN  /\ r.TotalCirc = Zero =>
                  /\ r.DiscardRatio = r.Losses
                  /\ r.MudCuttingRatio = Mul(r.Losses, Hundred)
            /\ r.DrillingHrs = Zero => r.ROP = r.Depth
            /\ r.TotalCirc # Zero => Mul(r.DiscardRatio, r.TotalCirc) = r.Losses
            /\ r.DrillingHrs # Zero => Mul(r.ROP, r.DrillingHrs) = r.Depth
            /\ r.MudCuttingRatio = Mul(r.DiscardRatio, Hundred)

\* A row with Total Circ = 0 and Losses 5, and a plain quotient for ROP.
C7_Witness ==
    /\ Len(df) = 1
    /\ df[1].TotalCirc = Zero /\ df[1].Losses = Frac(5, 1)
    /\ df[1].DiscardRatio = Frac(5, 1)
    /\ df[1].DrillingHrs = Frac(2, 1) /\ df[1].Depth = Frac(5, 1)
    /\ df[1].ROP = Frac(5, 2)

\* The rows of df in the group of key, under the current grouping.
RowsOf(key) == {i \in 1..Len(df) : key_of(df[i], compare_mode) = key}

RECURSIVE SumOf(_, _)
SumOf(rows, col) ==
    IF rows = {} THEN Zero
    ELSE LET i == CHOOSE j \in rows : TRUE
         IN  Add(df[i][col], SumOf(rows \ {i}, col))

MeanOf(rows, col) == Div(SumOf(rows, col), Frac(Cardinality(rows), 1))

\* x is y rounded to two decimals: a number of hundredths within 0.005 of y.
Rounds(x, y) ==
    IF ~IsFinite(y) THEN x = y
    ELSE /\ IsFinite(x)
         /\ 100 % x.d = 0
         /\ 200 * Abs(Sub(x, y).n) <= Sub(x, y).d

\* C8: grouped aggregation.  The comparison table has one row per distinct
\* key of the record table and no other, so every record row is in exactly
\* one group; each group's ROP, DSRE% and Discard Ratio is the mean, and its
\* Top and Bottom Deck SCE the sum, over the group's rows, rounded to two
\* decimals.
C8_GroupedAggregation ==
    /\ {comp_df[g].key : g \in 1..Len(comp_df)}
          = {key_of(df[i], compare_mode) : i \in 1..Len(df)}
    /\ \A g, h \in 1..Len(comp_df) : comp_df[g].key = comp_df[h].key => g = h
    /\ \A i \in 1..Len(df) :
          Cardinality({g \in 1..Len(comp_df) :
                          comp_df[g].key = key_of(df[i], compare_mode)}) = 1
    /\ \A g \in 1..Len(comp_df) :
          LET rows == RowsOf(comp_df[g].key)
          IN  /\ \A col \in MeanColumns :
                    Rounds(comp_df[g][col], MeanOf(rows, col))
              /\ \A col \in SumColumns :
                    Rounds(comp_df[g][col], SumOf(rows, col))

\* Two rows for well "A" with ROP 50 and 70: the mean ROP of "A" is 60.
C8_Witness ==
    /\ compare_mode = "Well Name"
    /\ Len(df) = 3
    /\ \E g \in 1..Len(comp_df) :
          /\ comp_df[g].key = <<"A">>
          /\ {df[i].ROP : i \in RowsOf(<<"A">>)} = {Frac(50, 1), Frac(70, 1)}
          /\ Cardinality(RowsOf(<<"A">>)) = 2
          /\ comp_df[g].ROP = Frac(60, 1)

\* C9: no derived ratio has a zero divisor or a non-finite value: with x'
\* for x with 0 replaced by 1, Total Circ', Drilling Hrs' and
\* Total Dilution + Losses' are non-zero, and DSRE% lies in 0..100.
C9_NoZeroDivisor ==
    \A i \in 1..Len(df) :
        LET r == df[i]
        IN  /\ replace_0_1(r.TotalCirc) # Zero
            /\ replace_0_1(r.DrillingHrs) # Zero
            /\ Add(r.TotalDilution, replace_0_1(r.Losses)) # Zero
            /\ IsFinite(r.DiscardRatio) /\ IsFinite(r.ROP)
            /\ IsFinite(r.MudCuttingRatio) /\ IsFinite(r.DSRE)
            /\ ~Less(r.DSRE, Zero) /\ ~Less(Hundred, r.DSRE)

AllGroups == {g \in 1..Len(comp_df) : TRUE}

\* C10: ROP Rank is a descending rank of the groups' ROP: a group of the
\* greatest ROP has rank 1, a greater ROP never has a larger rank, every rank
\* is in 1..number of groups; Delta DSRE% is DSRE% minus the groups' mean.
C10_RankIsDescending ==
    /\ \A g \in AllGroups :
          (\A h \in AllGroups : ~Less(comp_df[g].ROP, comp_df[h].ROP))
              => comp_df[g].ROPRank = 1
    /\ \A g, h \in AllGroups :
          Less(comp_df[h].ROP, comp_df[g].ROP)
              => comp_df[g].ROPRank <= comp_df[h].ROPRank
    /\ \A g \in AllGroups : comp_df[g].ROPRank \in 1..Len(comp_df)
    /\ \A g \in AllGroups :
          comp_df[g].DeltaDSRE =
              Sub(comp_df[g].DSRE,
                  Div(agg_sum(column(comp_df, "DSRE")), Frac(Len(comp_df), 1)))

====
